---- MODULE Spec2Model ----
(***************************************************************************)
(* werewolf-signaling: the real-time hub (Session Registry, Room Directory *)
(* and Message Router of src/rooms/memoryStore.ts lines 201-708), the Room *)
(* Ledger (InMemoryRoomStore, lines 94-197) and the earlier chat-only      *)
(* server of src/index.ts.                                                 *)
(*                                                                         *)
(* A JavaScript string is a sequence of one-character strings; null and    *)
(* undefined are Null; a value whose typeof is not "string" is NotAString. *)
(* Every event handler runs to completion, so each handler is one action.  *)
(* The variable sent holds the sendJson calls made by the handler that ran *)
(* last, in order, and lastEvent the event that handler was given; both    *)
(* are dropped when the handler has returned to the event loop, before the *)
(* next event is taken (HandlerReturns).                                   *)
(*                                                                         *)
(* A room of the Directory is a Map from session id to session object; it  *)
(* is modelled as the set of its keys, iterated in ascending id order, and *)
(* the session objects live in clientSession (an object stays there after  *)
(* the Session Registry has dropped its id, as it does on the heap).       *)
(***************************************************************************)
EXTENDS Naturals, Integers, Sequences, FiniteSets, TLC

\* ------------------------------------------------------------------ bounds
MaxClients == 3
MaxLedgerRooms == 2
MaxParticipants == 2
MaxClock == 1

Clients == 1..MaxClients

\* ------------------------------------------------------- values and strings
Null == <<"null">>
NotAString == <<"number">>
NoId == 0
IsString(v) == v # Null /\ v # NotAString

\* JavaScript truthiness of a string-or-null value: null, undefined and the
\* empty string are falsy, every other string (and a non-zero number) truthy.
Truthy(v) == v # Null /\ v # <<>>

IsSpace(ch) == ch = " "

LowerCase ==
  << "a", "b", "c", "d", "e", "f", "g", "h", "i", "j", "k", "l", "m",
     "n", "o", "p", "q", "r", "s", "t", "u", "v", "w", "x", "y", "z" >>

UpperCase ==
  << "A", "B", "C", "D", "E", "F", "G", "H", "I", "J", "K", "L", "M",
     "N", "O", "P", "Q", "R", "S", "T", "U", "V", "W", "X", "Y", "Z" >>

UpperChar(ch) ==
  IF \E k \in 1..Len(LowerCase) : LowerCase[k] = ch
  THEN UpperCase[CHOOSE k \in 1..Len(LowerCase) : LowerCase[k] = ch]
  ELSE ch

toUpperCase(s) == [i \in 1..Len(s) |-> UpperChar(s[i])]

RECURSIVE trimStart(_)
trimStart(s) ==
  IF Len(s) = 0 THEN s
  ELSE IF IsSpace(Head(s)) THEN trimStart(Tail(s)) ELSE s

RECURSIVE trimEnd(_)
trimEnd(s) ==
  IF Len(s) = 0 THEN s
  ELSE IF IsSpace(s[Len(s)]) THEN trimEnd(SubSeq(s, 1, Len(s) - 1)) ELSE s

trim(s) == trimEnd(trimStart(s))

\* a normalization that trims and keeps the letter case
normalizeRoomId_trimOnly(value) == trim(value)

normalizeRoomId(value) == toUpperCase(trim(value))

\* ------------------------------------------------------------------ inputs
\* Room codes a client may put in a join: two codes in several spellings
\* (lower case, upper case, padded) and codes made only of whitespace.
RawCodes ==
  { <<"a">>, <<"A">>, <<" ", "a">>, <<"b">>, <<"B", " ">>, <<" ">> }

RoomIdInputs == RawCodes \cup { Null, NotAString, <<>> }

\* displayName and role of a join, as sent: a padded name with role host
\* (a session that has not joined has no name and role guest)
ProfileInputs ==
  { [displayName |-> <<" ", "n">>, role |-> <<"host">>] }

TargetInputs == Clients \cup { NoId }

PayloadInputs == { Null, <<"sdp">> }

TextInputs == { <<"hi">>, NotAString }

MessageIdInputs == { Null, <<>>, <<"m1">>, NotAString }

\* what makeId() may return for a chat message
MintedIds == { <<"u1">>, <<"u2">> }

\* ------------------------------------------------------------------- state
VARIABLES
  opened,        \* connections whose onOpen has run
  sessions,      \* keys of the sessions Map (the Session Registry)
  clientSession, \* the ClientSession object of each connection
  activeRooms,   \* the Directory: room key -> set of member ids
  sockOpen,      \* socket.readyState === WebSocket.OPEN, per connection
  ended,         \* connections whose close or error event has been handled
  sent,          \* the sendJson calls of the last handler
  lastEvent,     \* the event the last handler was given, and the rooms its
                 \* connection was a member of when the handler started
  rooms,         \* the Ledger: InMemoryRoomStore.#rooms
  idCount,       \* how many ids the Ledger's makeId() has returned
  clock,         \* the last value Date.now() returned to the Ledger
  result         \* what the last Ledger call returned or threw

realtime == << opened, sessions, clientSession, activeRooms, sockOpen, ended >>

ledger == << rooms, idCount, clock >>

vars == << realtime, sent, lastEvent, ledger, result >>

NewSession == [roomId |-> Null, displayName |-> Null, role |-> <<"guest">>]

\* ---------------------------------------------------------------- helpers
RoomsOf(directory, c) == { r \in DOMAIN directory : c \in directory[r] }

Event(kind, c, msg) ==
  [kind |-> kind, client |-> c, msg |-> msg,
   wasIn |-> RoomsOf(activeRooms, c)]

MapDelete(m, k) == [x \in (DOMAIN m) \ {k} |-> m[x]]

MapSet(m, k, v) == [x \in (DOMAIN m) \cup {k} |-> IF x = k THEN v ELSE m[x]]

\* A handler works on st = [rooms, cs, out]: the Directory, the session
\* objects and the sendJson calls made so far.
Start == [rooms |-> activeRooms, cs |-> clientSession, out |-> <<>>]

sendJson(st, to, payload) ==
  [st EXCEPT !.out =
     Append(@, [to |-> to, msg |-> payload, delivered |-> sockOpen[to]])]

Min(S) == CHOOSE x \in S : \A y \in S : x <= y

RECURSIVE SendEach(_, _, _, _)
SendEach(st, members, payload, exclude) ==
  IF members = {} THEN st
  ELSE IF Min(members) \in exclude
       THEN SendEach(st, members \ {Min(members)}, payload, exclude)
       ELSE SendEach(sendJson(st, Min(members), payload),
                     members \ {Min(members)}, payload, exclude)

\* a broadcast that does not skip the excluded member
broadcastToRoom_noExclude(st, roomId, payload, exclude) ==
  IF roomId \notin DOMAIN st.rooms THEN st
  ELSE SendEach(st, st.rooms[roomId], payload, {})

\* exclude is {} when the caller passes no third argument, {id} otherwise
broadcastToRoom(st, roomId, payload, exclude) ==
  IF roomId \notin DOMAIN st.rooms THEN st
  ELSE SendEach(st, st.rooms[roomId], payload, exclude)

\* a detach that leaves the emptied room in the Directory
detachFromRoom_keepsEmptyRoom(st, id) ==
  LET roomId == st.cs[id].roomId IN
  IF ~Truthy(roomId) THEN st
  ELSE IF roomId \notin DOMAIN st.rooms
       THEN [st EXCEPT !.cs[id].roomId = Null]
       ELSE LET room == st.rooms[roomId] \ {id}
                st1 == [st EXCEPT !.rooms[roomId] = room]
                st2 == broadcastToRoom(st1, roomId,
                         [type |-> "user-left", clientId |-> id], {id})
            IN [st2 EXCEPT !.cs[id].roomId = Null]

detachFromRoom(st, id) ==
  LET roomId == st.cs[id].roomId IN
  IF ~Truthy(roomId) THEN st
  ELSE IF roomId \notin DOMAIN st.rooms
       THEN [st EXCEPT !.cs[id].roomId = Null]
       ELSE LET room == st.rooms[roomId] \ {id}
                st1 == [st EXCEPT !.rooms =
                          IF Cardinality(room) = 0 THEN MapDelete(@, roomId)
                          ELSE [@ EXCEPT ![roomId] = room]]
                st2 == broadcastToRoom(st1, roomId,
                         [type |-> "user-left", clientId |-> id], {id})
            IN [st2 EXCEPT !.cs[id].roomId = Null]

\* an attach that stores the room code as sent in session.roomId
attachToRoom_rawRoomId(st, id, roomId) ==
  LET normalizedId == toUpperCase(trim(roomId))
      room == IF normalizedId \in DOMAIN st.rooms
              THEN st.rooms[normalizedId] ELSE {}
      room1 == room \cup {id}
  IN [st EXCEPT !.rooms = MapSet(@, normalizedId, room1),
                !.cs[id].roomId = roomId]

\* an attach that admits a session only to a room the Ledger holds
attachToRoom_ledgerRoomsOnly(st, id, roomId) ==
  LET normalizedId == toUpperCase(trim(roomId))
      room == IF normalizedId \in DOMAIN st.rooms
              THEN st.rooms[normalizedId] ELSE {}
      room1 == room \cup {id}
  IN IF normalizedId \notin DOMAIN rooms THEN st
     ELSE [st EXCEPT !.rooms = MapSet(@, normalizedId, room1),
                     !.cs[id].roomId = normalizedId]

attachToRoom(st, id, roomId) ==
  LET normalizedId == toUpperCase(trim(roomId))
      room == IF normalizedId \in DOMAIN st.rooms
              THEN st.rooms[normalizedId] ELSE {}
      room1 == room \cup {id}
  IN [st EXCEPT !.rooms = MapSet(@, normalizedId, room1),
                !.cs[id].roomId = normalizedId]

ParticipantSummary(st, id) ==
  [clientId |-> id, displayName |-> st.cs[id].displayName,
   role |-> st.cs[id].role]

\* a roster that lists every member of the room, the joiner too
RECURSIVE Roster_withSelf(_, _, _)
Roster_withSelf(st, members, self) ==
  IF members = {} THEN <<>>
  ELSE <<ParticipantSummary(st, Min(members))>>
         \o Roster_withSelf(st, members \ {Min(members)}, self)

RECURSIVE Roster(_, _, _)
Roster(st, members, self) ==
  IF members = {} THEN <<>>
  ELSE IF Min(members) = self THEN Roster(st, members \ {self}, self)
       ELSE <<ParticipantSummary(st, Min(members))>>
              \o Roster(st, members \ {Min(members)}, self)

\* a join handler that detaches the session before it looks at roomId
handleJoinMessage_detachFirst(st, id, message) ==
  LET st1 == IF Truthy(st.cs[id].roomId) THEN detachFromRoom(st, id) ELSE st
  IN IF ~Truthy(message.roomId) \/ ~IsString(message.roomId) THEN st1
     ELSE
       LET role == IF message.role = <<"host">> THEN <<"host">>
                   ELSE <<"guest">>
           displayName ==
             IF IsString(message.displayName)
                /\ Len(trim(message.displayName)) > 0
             THEN trim(message.displayName) ELSE Null
           st2 == [st1 EXCEPT !.cs[id].displayName = displayName,
                              !.cs[id].role = role]
           st3 == attachToRoom(st2, id, message.roomId)
           roomId == st3.cs[id].roomId
           otherParticipants ==
             IF roomId \in DOMAIN st3.rooms
             THEN Roster(st3, st3.rooms[roomId], id) ELSE <<>>
           st4 == sendJson(st3, id,
                    [type |-> "room-state",
                     participants |-> otherParticipants])
       IN broadcastToRoom(st4, roomId,
            [type |-> "user-joined",
             participant |-> ParticipantSummary(st4, id)],
            {id})

handleJoinMessage(st, id, message) ==
  IF ~Truthy(message.roomId) \/ ~IsString(message.roomId) THEN st
  ELSE
    LET role == IF message.role = <<"host">> THEN <<"host">> ELSE <<"guest">>
        displayName ==
          IF IsString(message.displayName)
             /\ Len(trim(message.displayName)) > 0
          THEN trim(message.displayName) ELSE Null
        wasInRoom == st.cs[id].roomId
        st1 == IF Truthy(wasInRoom) THEN detachFromRoom(st, id) ELSE st
        st2 == [st1 EXCEPT !.cs[id].displayName = displayName,
                           !.cs[id].role = role]
        st3 == attachToRoom(st2, id, message.roomId)
        roomId == st3.cs[id].roomId
        otherParticipants ==
          IF roomId \in DOMAIN st3.rooms
          THEN Roster(st3, st3.rooms[roomId], id) ELSE <<>>
        st4 == sendJson(st3, id,
                 [type |-> "room-state", participants |-> otherParticipants])
    IN broadcastToRoom(st4, roomId,
         [type |-> "user-joined", participant |-> ParticipantSummary(st4, id)],
         {id})

\* a signal handler that looks the target up in every room of the Directory
handleSignalMessage_anyRoom(st, id, message) ==
  LET roomId == st.cs[id].roomId IN
  IF ~Truthy(roomId) \/ message.targetClientId = NoId THEN st
  ELSE IF RoomsOf(st.rooms, message.targetClientId) = {} THEN st
  ELSE sendJson(st, message.targetClientId,
         [type |-> "signal", from |-> id, payload |-> message.payload])

handleSignalMessage(st, id, message) ==
  LET roomId == st.cs[id].roomId IN
  IF ~Truthy(roomId) \/ message.targetClientId = NoId THEN st
  ELSE IF roomId \notin DOMAIN st.rooms THEN st
  ELSE IF message.targetClientId \notin st.rooms[roomId] THEN st
  ELSE sendJson(st, message.targetClientId,
         [type |-> "signal", from |-> id, payload |-> message.payload])

handleChatMessage(st, id, message, minted) ==
  LET roomId == st.cs[id].roomId IN
  IF ~Truthy(roomId) \/ ~IsString(message.text) THEN st
  ELSE broadcastToRoom(st, roomId,
         [type |-> "chat", clientId |-> id, text |-> message.text,
          messageId |-> IF Truthy(message.messageId)
                           /\ IsString(message.messageId)
                        THEN message.messageId ELSE minted],
         {})

\* ------------------------------------------------------------------ actions
NoEvent == [kind |-> "idle", client |-> NoId, msg |-> Null, wasIn |-> {}]

NoResult == [ok |-> TRUE, value |-> Null]

Init ==
  /\ rooms = [r \in {} |-> {}]
  /\ idCount = 0
  /\ clock = 0
  /\ result = NoResult
  /\ opened = {}
  /\ sessions = {}
  /\ clientSession = [c \in Clients |-> NewSession]
  /\ activeRooms = [r \in {} |-> {}]
  /\ sockOpen = [c \in Clients |-> FALSE]
  /\ ended = {}
  /\ sent = <<>>
  /\ lastEvent = NoEvent

Commit(st) ==
  /\ activeRooms' = st.rooms
  /\ clientSession' = st.cs
  /\ sent' = st.out

Idle == lastEvent.kind = "idle"

\* The handler has returned: the event loop is free to take the next event.
HandlerReturns ==
  /\ ~Idle
  /\ sent' = <<>>
  /\ lastEvent' = NoEvent
  /\ result' = NoResult
  /\ UNCHANGED << realtime, ledger >>

onOpen(c) ==
  /\ Idle
  /\ c \notin opened
  /\ opened' = opened \cup {c}
  /\ sessions' = sessions \cup {c}
  /\ sockOpen' = [sockOpen EXCEPT ![c] = TRUE]
  /\ clientSession' = [clientSession EXCEPT ![c] = NewSession]
  /\ sent' = << [to |-> c, msg |-> [type |-> "welcome", clientId |-> c],
                 delivered |-> TRUE] >>
  /\ lastEvent' = Event("open", c, Null)
  /\ UNCHANGED << activeRooms, ended, ledger, result >>

\* The transport moves a socket out of the OPEN state before it reports the
\* close to the server.
SocketLeavesOpen(c) ==
  /\ Idle
  /\ c \in opened
  /\ sockOpen[c]
  /\ sockOpen' = [sockOpen EXCEPT ![c] = FALSE]
  /\ sent' = <<>>
  /\ lastEvent' = Event("transport", c, Null)
  /\ UNCHANGED << opened, sessions, clientSession, activeRooms, ended,
                  ledger, result >>

\* a dispatch that does not look the session up in the Session Registry
Dispatch_noSessionCheck(c, message, minted) ==
  CASE message.type = "join" -> handleJoinMessage(Start, c, message)
    [] message.type = "signal" -> handleSignalMessage(Start, c, message)
    [] message.type = "chat" -> handleChatMessage(Start, c, message, minted)
    [] OTHER -> Start

\* minted is what makeId() returns if the chat handler calls it
Dispatch(c, message, minted) ==
  IF c \notin sessions THEN Start
  ELSE CASE message.type = "join" -> handleJoinMessage(Start, c, message)
         [] message.type = "signal" -> handleSignalMessage(Start, c, message)
         [] message.type = "chat" ->
              handleChatMessage(Start, c, message, minted)
         [] OTHER -> Start

onMessage(c, message, minted) ==
  /\ Idle
  /\ c \in opened
  /\ Commit(Dispatch(c, message, minted))
  /\ lastEvent' = Event(message.type, c, message)
  /\ UNCHANGED << opened, sessions, sockOpen, ended, ledger, result >>

JoinMessages ==
  { [type |-> "join", roomId |-> r, displayName |-> p.displayName,
     role |-> p.role] : r \in RawCodes, p \in ProfileInputs }
  \cup
  { [type |-> "join", roomId |-> r, displayName |-> Null, role |-> Null] :
      r \in RoomIdInputs \ RawCodes }

SignalMessages ==
  [type : {"signal"}, targetClientId : TargetInputs, payload : PayloadInputs]

ChatMessages ==
  [type : {"chat"}, text : {<<"hi">>}, messageId : MessageIdInputs]
  \cup [type : {"chat"}, text : TextInputs, messageId : {<<"m1">>}]

\* unparseable JSON, a non-object JSON value, and an unrecognized type
OtherMessages == [type : {"invalid-json", "not-an-object", "ping"}]

onJoin(c) == \E m \in JoinMessages : onMessage(c, m, Null)

onSignal(c) == \E m \in SignalMessages : onMessage(c, m, Null)

onChat(c) == \E m \in ChatMessages, id \in MintedIds : onMessage(c, m, id)

onOther(c) == \E m \in OtherMessages : onMessage(c, m, Null)

Disconnect(c) ==
  IF c \in sessions THEN detachFromRoom(Start, c) ELSE Start

onClose(c) ==
  /\ Idle
  /\ c \in opened
  /\ Commit(Disconnect(c))
  /\ sessions' = sessions \ {c}
  /\ sockOpen' = [sockOpen EXCEPT ![c] = FALSE]
  /\ ended' = ended \cup {c}
  /\ lastEvent' = Event("close", c, Null)
  /\ UNCHANGED << opened, ledger, result >>

onError(c) ==
  /\ Idle
  /\ c \in opened
  /\ Commit(Disconnect(c))
  /\ sessions' = sessions \ {c}
  /\ sockOpen' = [sockOpen EXCEPT ![c] = FALSE]
  /\ ended' = ended \cup {c}
  /\ lastEvent' = Event("error", c, Null)
  /\ UNCHANGED << opened, ledger, result >>

Next ==
  \/ HandlerReturns
  \/ \E c \in Clients :
      \/ onOpen(c)
      \/ SocketLeavesOpen(c)
      \/ onJoin(c)
      \/ onSignal(c)
      \/ onChat(c)
      \/ onOther(c)
      \/ onClose(c)
      \/ onError(c)

Spec == Init /\ [][Next]_vars

\* ------------------------------------- clients that join under several names
\* The hub as above, with joins that differ in displayName and role: a padded
\* name with role host, and a blank name with a role that is not exactly
\* "host"; the codes are one spelling each of two rooms and a blank code.
RosterCodes == { <<"a">>, <<"B", " ">>, <<" ">> }

RosterProfiles ==
  { [displayName |-> <<" ", "n">>, role |-> <<"host">>],
    [displayName |-> <<" ">>, role |-> <<"Host">>] }

RosterJoinMessages ==
  { [type |-> "join", roomId |-> r, displayName |-> p.displayName,
     role |-> p.role] : r \in RosterCodes, p \in RosterProfiles }
  \cup { [type |-> "join", roomId |-> Null, displayName |-> <<" ", "n">>,
          role |-> <<"host">>] }

onJoinAs(c) == \E m \in RosterJoinMessages : onMessage(c, m, Null)

NextRoster ==
  \/ HandlerReturns
  \/ \E c \in Clients :
      \/ onOpen(c)
      \/ SocketLeavesOpen(c)
      \/ onJoinAs(c)
      \/ onSignal(c)
      \/ onChat(c)
      \/ onOther(c)
      \/ onClose(c)
      \/ onError(c)

SpecRoster == Init /\ [][NextRoster]_vars

\* ------------------------------------------------- the chat-only server
\* src/index.ts: no rooms; a chat goes to every registered session.
index_broadcast(st, payload) == SendEach(st, sessions, payload, {})

index_Dispatch(c, message, minted) ==
  IF message.type # "chat" THEN Start
  ELSE IF ~IsString(message.text) THEN Start
  ELSE index_broadcast(Start,
         [type |-> "chat", clientId |-> c, text |-> message.text,
          messageId |-> IF Truthy(message.messageId)
                           /\ IsString(message.messageId)
                        THEN message.messageId ELSE minted])

index_onOpen(c) ==
  /\ Idle
  /\ c \notin opened
  /\ opened' = opened \cup {c}
  /\ sessions' = sessions \cup {c}
  /\ sockOpen' = [sockOpen EXCEPT ![c] = TRUE]
  /\ sent' = << [to |-> c, msg |-> [type |-> "welcome", clientId |-> c],
                 delivered |-> TRUE] >>
  /\ lastEvent' = Event("open", c, Null)
  /\ UNCHANGED << clientSession, activeRooms, ended, ledger, result >>

index_onMessage(c, message, minted) ==
  /\ Idle
  /\ c \in opened
  /\ Commit(index_Dispatch(c, message, minted))
  /\ lastEvent' = Event(message.type, c, message)
  /\ UNCHANGED << opened, sessions, sockOpen, ended, ledger, result >>

index_onChat(c) ==
  \E m \in ChatMessages, id \in MintedIds : index_onMessage(c, m, id)

index_onOther(c) ==
  \E m \in OtherMessages \cup JoinMessages \cup SignalMessages :
    index_onMessage(c, m, Null)

index_onClose(c) ==
  /\ Idle
  /\ c \in opened
  /\ sessions' = sessions \ {c}
  /\ sockOpen' = [sockOpen EXCEPT ![c] = FALSE]
  /\ ended' = ended \cup {c}
  /\ sent' = <<>>
  /\ lastEvent' = Event("close", c, Null)
  /\ UNCHANGED << opened, clientSession, activeRooms, ledger, result >>

index_onError(c) ==
  /\ Idle
  /\ c \in opened
  /\ sessions' = sessions \ {c}
  /\ sockOpen' = [sockOpen EXCEPT ![c] = FALSE]
  /\ ended' = ended \cup {c}
  /\ sent' = <<>>
  /\ lastEvent' = Event("error", c, Null)
  /\ UNCHANGED << opened, clientSession, activeRooms, ledger, result >>

NextIndex ==
  \/ HandlerReturns
  \/ \E c \in Clients :
      \/ index_onOpen(c)
      \/ SocketLeavesOpen(c)
      \/ index_onChat(c)
      \/ index_onOther(c)
      \/ index_onClose(c)
      \/ index_onError(c)

SpecIndex == Init /\ [][NextIndex]_vars

\* -------------------------------------------------------------- the Ledger
ROOM_ID_ALPHABET ==
  << "A", "B", "C", "D", "E", "F", "G", "H", "J", "K", "M", "N", "P", "Q",
     "R", "S", "T", "U", "V", "W", "X", "Y", "Z", "2", "3", "4", "5", "6",
     "7", "8", "9" >>

ROOM_ID_LENGTH == 6

Attempts == 20

\* what randomBytes may hold in one attempt: all zero, and a run of values
\* around the alphabet's length
RandomVectors ==
  { [index \in 1..ROOM_ID_LENGTH |-> 0],
    [index \in 1..ROOM_ID_LENGTH |-> Len(ROOM_ID_ALPHABET) - 2 + index] }

\* the random values of the attempts of one call: the first k attempts draw
\* one vector, the others another
DrawSequences ==
  { [attempt \in 1..Attempts |-> IF attempt <= k THEN v1 ELSE v2] :
      v1 \in RandomVectors, v2 \in RandomVectors, k \in {0, 1, Attempts} }

codeOf(randomBytes) ==
  [index \in 1..ROOM_ID_LENGTH |->
     ROOM_ID_ALPHABET[(randomBytes[index] % Len(ROOM_ID_ALPHABET)) + 1]]

AllocationFailed == <<"Failed to allocate a unique room id">>

\* a generator that returns its first candidate without looking it up
generateAttempt_noCollisionCheck(existingIds, draws, attempts) ==
  IF attempts >= Attempts THEN AllocationFailed
  ELSE normalizeRoomId(codeOf(draws[attempts + 1]))

RECURSIVE generateAttempt(_, _, _)
generateAttempt(existingIds, draws, attempts) ==
  IF attempts >= Attempts THEN AllocationFailed
  ELSE LET normalized == normalizeRoomId(codeOf(draws[attempts + 1]))
       IN IF normalized \notin existingIds THEN normalized
          ELSE generateAttempt(existingIds, draws, attempts + 1)

generateRoomId(existingIds, draws) == generateAttempt(existingIds, draws, 0)

\* the n-th id returned by the Ledger's makeId(): opaque, non-empty, fresh
makeId(n) == <<"id", n>>

Thrown(error) == [ok |-> FALSE, error |-> error]

Returned(value) == [ok |-> TRUE, value |-> value]

\* A Ledger method gives [rooms, idCount, clock, result]: the store after
\* the call and what the call returned or threw.
Unchanged(res) ==
  [rooms |-> rooms, idCount |-> idCount, clock |-> clock, result |-> res]

createRoom(draws, now) ==
  LET roomId == generateRoomId(DOMAIN rooms, draws)
      hostToken == makeId(idCount + 1)
      createdAt == now
  IN IF roomId = AllocationFailed THEN Unchanged(Thrown("Error"))
     ELSE [rooms |-> MapSet(rooms, roomId,
                       [id |-> roomId, createdAt |-> createdAt,
                        hostToken |-> hostToken, participants |-> <<>>]),
           idCount |-> idCount + 1,
           clock |-> now,
           result |-> Returned([roomId |-> roomId, hostToken |-> hostToken,
                                createdAt |-> createdAt])]

\* a host join that accepts every non-empty token
hostTokenRejected_anyToken(options, room) == ~Truthy(options.hostToken)

hostTokenRejected(options, room) ==
  ~Truthy(options.hostToken) \/ options.hostToken # room.hostToken

\* a join that opens a room for a code the Ledger does not hold, as the
\* real-time join does
joinRoom_createsMissingRoom(roomIdRaw, options, now) ==
  IF ~IsString(roomIdRaw) THEN Unchanged(Thrown("RoomNotFound"))
  ELSE IF Len(trim(roomIdRaw)) = 0 THEN Unchanged(Thrown("RoomNotFound"))
  ELSE
    LET roomId == normalizeRoomId(roomIdRaw)
        role == IF options.role = <<"host">> THEN <<"host">> ELSE <<"guest">>
        displayName ==
          IF IsString(options.displayName)
             /\ Len(trim(options.displayName)) > 0
          THEN trim(options.displayName) ELSE Null
        participant ==
          [participantId |-> makeId(idCount + 1),
           displayName |-> displayName, role |-> role, joinedAt |-> now]
        joined == Returned([roomId |-> roomId,
                            participantId |-> participant.participantId,
                            role |-> role, displayName |-> displayName,
                            joinedAt |-> now])
    IN IF roomId \notin DOMAIN rooms
       THEN [rooms |-> MapSet(rooms, roomId,
                         [id |-> roomId, createdAt |-> now,
                          hostToken |-> makeId(0),
                          participants |-> <<participant>>]),
             idCount |-> idCount + 1, clock |-> now, result |-> joined]
       ELSE IF role = <<"host">> /\ hostTokenRejected(options, rooms[roomId])
       THEN Unchanged(Thrown("InvalidHostToken"))
       ELSE [rooms |-> [rooms EXCEPT ![roomId].participants =
                          Append(@, participant)],
             idCount |-> idCount + 1, clock |-> now, result |-> joined]

\* a join that takes a second join with the same name and role for a return
\* of the same participant and replaces its record
joinRoom_rejoinReplaces(roomIdRaw, options, now) ==
  IF ~IsString(roomIdRaw) THEN Unchanged(Thrown("RoomNotFound"))
  ELSE IF Len(trim(roomIdRaw)) = 0 THEN Unchanged(Thrown("RoomNotFound"))
  ELSE
    LET roomId == normalizeRoomId(roomIdRaw) IN
    IF roomId \notin DOMAIN rooms THEN Unchanged(Thrown("RoomNotFound"))
    ELSE
      LET room == rooms[roomId]
          role == IF options.role = <<"host">> THEN <<"host">>
                  ELSE <<"guest">>
          displayName ==
            IF IsString(options.displayName)
               /\ Len(trim(options.displayName)) > 0
            THEN trim(options.displayName) ELSE Null
          participant ==
            [participantId |-> makeId(idCount + 1),
             displayName |-> displayName, role |-> role, joinedAt |-> now]
          others ==
            SelectSeq(room.participants,
                      LAMBDA q : q.displayName # displayName \/ q.role # role)
      IN IF role = <<"host">> /\ hostTokenRejected(options, room)
         THEN Unchanged(Thrown("InvalidHostToken"))
         ELSE [rooms |-> [rooms EXCEPT ![roomId].participants =
                            Append(others, participant)],
               idCount |-> idCount + 1,
               clock |-> now,
               result |-> Returned([roomId |-> roomId,
                                    participantId |-> participant.participantId,
                                    role |-> role,
                                    displayName |-> displayName,
                                    joinedAt |-> now])]

joinRoom(roomIdRaw, options, now) ==
  IF ~IsString(roomIdRaw) THEN Unchanged(Thrown("RoomNotFound"))
  ELSE IF Len(trim(roomIdRaw)) = 0 THEN Unchanged(Thrown("RoomNotFound"))
  ELSE
    LET roomId == normalizeRoomId(roomIdRaw) IN
    IF roomId \notin DOMAIN rooms THEN Unchanged(Thrown("RoomNotFound"))
    ELSE
      LET room == rooms[roomId]
          role == IF options.role = <<"host">> THEN <<"host">>
                  ELSE <<"guest">>
          displayName ==
            IF IsString(options.displayName)
               /\ Len(trim(options.displayName)) > 0
            THEN trim(options.displayName) ELSE Null
      IN IF role = <<"host">> /\ hostTokenRejected(options, room)
         THEN Unchanged(Thrown("InvalidHostToken"))
         ELSE
           LET participantId == makeId(idCount + 1)
               joinedAt == now
               participant ==
                 [participantId |-> participantId,
                  displayName |-> displayName, role |-> role,
                  joinedAt |-> joinedAt]
           IN [rooms |-> [rooms EXCEPT ![roomId].participants =
                            Append(@, participant)],
               idCount |-> idCount + 1,
               clock |-> now,
               result |-> Returned([roomId |-> roomId,
                                    participantId |-> participantId,
                                    role |-> role,
                                    displayName |-> displayName,
                                    joinedAt |-> joinedAt])]

\* a summary that lists the newest participant first
getRoomSummary_newestFirst(roomIdRaw) ==
  LET roomId == normalizeRoomId(roomIdRaw) IN
  IF roomId \notin DOMAIN rooms THEN Unchanged(Thrown("RoomNotFound"))
  ELSE LET stored == rooms[roomId].participants
       IN Unchanged(Returned(
            [roomId |-> roomId,
             createdAt |-> rooms[roomId].createdAt,
             participants |->
               [i \in 1..Len(stored) |-> stored[Len(stored) + 1 - i]]]))

getRoomSummary(roomIdRaw) ==
  LET roomId == normalizeRoomId(roomIdRaw) IN
  IF roomId \notin DOMAIN rooms THEN Unchanged(Thrown("RoomNotFound"))
  ELSE Unchanged(Returned([roomId |-> roomId,
                           createdAt |-> rooms[roomId].createdAt,
                           participants |-> rooms[roomId].participants]))

hasRoom(roomIdRaw) ==
  IF ~IsString(roomIdRaw) THEN Unchanged(Returned(FALSE))
  ELSE Unchanged(Returned(normalizeRoomId(roomIdRaw) \in DOMAIN rooms))

inspectRoom(roomIdRaw) ==
  LET roomId == normalizeRoomId(roomIdRaw) IN
  Unchanged(Returned(IF roomId \in DOMAIN rooms THEN rooms[roomId]
                     ELSE Null))

\* ---- inputs of the Ledger calls
toLowerCase(s) ==
  [i \in 1..Len(s) |->
     IF \E k \in 1..Len(UpperCase) : UpperCase[k] = s[i]
     THEN LowerCase[CHOOSE k \in 1..Len(UpperCase) : UpperCase[k] = s[i]]
     ELSE s[i]]

GeneratedCodes == { codeOf(v) : v \in RandomVectors }

\* each code as generated, in lower case and padded with blanks; the empty
\* string and a blank string
StoreCodeInputs ==
  UNION { { k, toLowerCase(k), <<" ">> \o k \o <<" ">> } :
            k \in GeneratedCodes }
  \cup { <<>>, <<" ">> }

\* the token of any room of the Ledger, a string that is no room's token,
\* the empty string, and no token
HostTokenInputs ==
  { rooms[r].hostToken : r \in DOMAIN rooms } \cup { makeId(0), <<>>, Null }

JoinOptions ==
  [displayName : { Null, <<" ", "n">> },
   role : { <<"host">>, <<"guest">>, Null },
   hostToken : HostTokenInputs]

TotalParticipants ==
  LET RECURSIVE Sum(_)
      Sum(S) == IF S = {} THEN 0
                ELSE LET r == CHOOSE x \in S : TRUE
                     IN Len(rooms[r].participants) + Sum(S \ {r})
  IN Sum(DOMAIN rooms)

Call(kind, args) ==
  [kind |-> kind, client |-> NoId, msg |-> args, wasIn |-> {}]

Store(after) ==
  /\ rooms' = after.rooms
  /\ idCount' = after.idCount
  /\ clock' = after.clock
  /\ result' = after.result

CreateRoomCall ==
  /\ Idle
  /\ Cardinality(DOMAIN rooms) < MaxLedgerRooms
  /\ \E draws \in DrawSequences, now \in clock..MaxClock :
       /\ Store(createRoom(draws, now))
       /\ lastEvent' = Call("createRoom", [draws |-> draws])
  /\ UNCHANGED << realtime, sent >>

JoinRoomCall ==
  /\ Idle
  /\ \E roomIdRaw \in StoreCodeInputs \cup {NotAString},
        options \in JoinOptions, now \in clock..MaxClock :
       LET after == joinRoom(roomIdRaw, options, now) IN
       /\ after.result.ok => TotalParticipants < MaxParticipants
       /\ Store(after)
       /\ lastEvent' = Call("joinRoom",
                            [roomId |-> roomIdRaw, options |-> options])
  /\ UNCHANGED << realtime, sent >>

GetRoomSummaryCall ==
  /\ Idle
  /\ \E roomIdRaw \in StoreCodeInputs :
       /\ Store(getRoomSummary(roomIdRaw))
       /\ lastEvent' = Call("getRoomSummary", [roomId |-> roomIdRaw])
  /\ UNCHANGED << realtime, sent >>

HasRoomCall ==
  /\ Idle
  /\ \E roomIdRaw \in StoreCodeInputs \cup {NotAString} :
       /\ Store(hasRoom(roomIdRaw))
       /\ lastEvent' = Call("hasRoom", [roomId |-> roomIdRaw])
  /\ UNCHANGED << realtime, sent >>

InspectRoomCall ==
  /\ Idle
  /\ \E roomIdRaw \in StoreCodeInputs :
       /\ Store(inspectRoom(roomIdRaw))
       /\ lastEvent' = Call("inspectRoom", [roomId |-> roomIdRaw])
  /\ UNCHANGED << realtime, sent >>

NextLedger ==
  \/ HandlerReturns
  \/ CreateRoomCall
  \/ JoinRoomCall
  \/ GetRoomSummaryCall
  \/ HasRoomCall
  \/ InspectRoomCall

SpecLedger == Init /\ [][NextLedger]_vars

\* ------------------------------------- the Ledger and the hub in one process
\* The REST routes call roomStore while the /ws handlers run on the same
\* event loop.  Real-time joins name the code the Ledger hands out first,
\* spelled in lower case, and a code the Ledger never holds; they carry no
\* hostToken, a token of no room, or the token of the Ledger's first room.
HubDraws ==
  [attempt \in 1..Attempts |-> [index \in 1..ROOM_ID_LENGTH |-> 0]]

HubCodes == { toLowerCase(codeOf(HubDraws[1])), <<"b">> }

HubHostTokens == { Null, makeId(0), makeId(1) }

HubJoinMessages ==
  [type : {"join"}, roomId : HubCodes, displayName : {Null},
   role : {<<"host">>}, hostToken : HubHostTokens]

HubJoinOptions ==
  [displayName : {Null}, role : {<<"host">>}, hostToken : HubHostTokens]

onHubJoin(c) == \E m \in HubJoinMessages : onMessage(c, m, Null)

HubCreateRoom ==
  /\ Idle
  /\ Store(createRoom(HubDraws, clock))
  /\ lastEvent' = Call("createRoom", [draws |-> HubDraws])
  /\ UNCHANGED << realtime, sent >>

HubJoinRoom ==
  /\ Idle
  /\ \E roomIdRaw \in HubCodes, options \in HubJoinOptions :
       LET after == joinRoom(roomIdRaw, options, clock) IN
       /\ after.result.ok => TotalParticipants < MaxParticipants
       /\ Store(after)
       /\ lastEvent' = Call("joinRoom",
                            [roomId |-> roomIdRaw, options |-> options])
  /\ UNCHANGED << realtime, sent >>

HubGetRoomSummary ==
  /\ Idle
  /\ \E roomIdRaw \in HubCodes :
       /\ Store(getRoomSummary(roomIdRaw))
       /\ lastEvent' = Call("getRoomSummary", [roomId |-> roomIdRaw])
  /\ UNCHANGED << realtime, sent >>

HubHasRoom ==
  /\ Idle
  /\ \E roomIdRaw \in HubCodes :
       /\ Store(hasRoom(roomIdRaw))
       /\ lastEvent' = Call("hasRoom", [roomId |-> roomIdRaw])
  /\ UNCHANGED << realtime, sent >>

NextHub ==
  \/ HandlerReturns
  \/ HubCreateRoom
  \/ HubJoinRoom
  \/ HubGetRoomSummary
  \/ HubHasRoom
  \/ \E c \in Clients :
      \/ onOpen(c)
      \/ SocketLeavesOpen(c)
      \/ onHubJoin(c)
      \/ onSignal(c)
      \/ onChat(c)
      \/ onOther(c)
      \/ onClose(c)
      \/ onError(c)

SpecHub == Init /\ [][NextHub]_vars

\* ----------------------------------------- room codes in several spellings
\* The Ledger and the hub in one process, as in SpecHub, with every code
\* written as generated, in lower case, padded with blanks, and padded in
\* lower case: both generated codes in the Ledger calls, the first of them
\* and codes made of blanks in the real-time joins.
Spellings(k) ==
  { k, toLowerCase(k), <<" ">> \o k \o <<" ">>, <<" ">> \o toLowerCase(k) }

SpelledCodes == UNION { Spellings(k) : k \in GeneratedCodes }

\* codes made of blanks only: both are the empty string once trimmed
BlankCodes == { <<" ">>, <<" ", " ">> }

SpelledJoinMessages ==
  { [type |-> "join", roomId |-> r, displayName |-> p.displayName,
     role |-> p.role] :
      r \in Spellings(codeOf(HubDraws[1])) \cup BlankCodes,
      p \in ProfileInputs }

onSpelledJoin(c) == \E m \in SpelledJoinMessages : onMessage(c, m, Null)

SpelledJoinRoom ==
  /\ Idle
  /\ \E roomIdRaw \in SpelledCodes, options \in HubJoinOptions :
       LET after == joinRoom(roomIdRaw, options, clock) IN
       /\ after.result.ok => TotalParticipants < MaxParticipants
       /\ Store(after)
       /\ lastEvent' = Call("joinRoom",
                            [roomId |-> roomIdRaw, options |-> options])
  /\ UNCHANGED << realtime, sent >>

SpelledGetRoomSummary ==
  /\ Idle
  /\ \E roomIdRaw \in SpelledCodes :
       /\ Store(getRoomSummary(roomIdRaw))
       /\ lastEvent' = Call("getRoomSummary", [roomId |-> roomIdRaw])
  /\ UNCHANGED << realtime, sent >>

SpelledHasRoom ==
  /\ Idle
  /\ \E roomIdRaw \in SpelledCodes :
       /\ Store(hasRoom(roomIdRaw))
       /\ lastEvent' = Call("hasRoom", [roomId |-> roomIdRaw])
  /\ UNCHANGED << realtime, sent >>

NextCodes ==
  \/ HandlerReturns
  \/ HubCreateRoom
  \/ SpelledJoinRoom
  \/ SpelledGetRoomSummary
  \/ SpelledHasRoom
  \/ \E c \in Clients :
      \/ onOpen(c)
      \/ SocketLeavesOpen(c)
      \/ onSpelledJoin(c)
      \/ onSignal(c)
      \/ onChat(c)
      \/ onOther(c)
      \/ onClose(c)
      \/ onError(c)

SpecCodes == Init /\ [][NextCodes]_vars

\* ------------------------------------------------------------------ claims
\* a join the handler does not drop: roomId is a non-empty string
ValidJoin(m) == Truthy(m.roomId) /\ IsString(m.roomId)

\* the step just taken handled an event of a registered session
Handled(kinds) ==
  /\ lastEvent'.kind \in kinds
  /\ lastEvent'.client \in sessions

\* C1: no session id is a member of more than one Directory room.
C1_NoSessionInTwoRooms ==
  \A c \in Clients : Cardinality(RoomsOf(activeRooms, c)) <= 1

\* C2: every member of a Directory room is in the Session Registry; so a
\* connection whose close or error was handled is a member of no room.
C2_MembersAreLive ==
  \A r \in DOMAIN activeRooms : activeRooms[r] \subseteq sessions

\* C3: for every registered session with a non-null roomId the Directory has
\* a room keyed by exactly that roomId, and the session is a member of it.
C3_RoomIdNamesRoom ==
  \A c \in sessions :
    clientSession[c].roomId # Null =>
      /\ clientSession[c].roomId \in DOMAIN activeRooms
      /\ c \in activeRooms[clientSession[c].roomId]

\* the case of C3: a session has just moved from one room to another one
C3_Witness ==
  /\ lastEvent.kind = "join"
  /\ lastEvent.client \in sessions
  /\ lastEvent.wasIn # {}
  /\ clientSession[lastEvent.client].roomId # Null
  /\ clientSession[lastEvent.client].roomId \notin lastEvent.wasIn

NoEmptyRoom == \A r \in DOMAIN activeRooms : activeRooms[r] # {}

RoomLifecycle ==
  /\ \A r \in (DOMAIN activeRooms') \ (DOMAIN activeRooms) :
       /\ lastEvent'.kind = "join"
       /\ activeRooms'[r] = {lastEvent'.client}
  /\ \A r \in (DOMAIN activeRooms) \ (DOMAIN activeRooms') :
       /\ lastEvent'.kind \in {"join", "close", "error"}
       /\ activeRooms[r] = {lastEvent'.client}
  /\ \A r \in DOMAIN activeRooms' : activeRooms'[r] # {}

\* C4: every room key of the Directory has at least one member; a room is
\* created only by the join that adds its first member and is removed in the
\* step that detaches its last member.
C4_RoomsNeverEmpty == []NoEmptyRoom /\ [][RoomLifecycle]_vars

\* the case of C4: a join has moved the only member of a room elsewhere, the
\* old room is gone and the new room exists
C4_Witness ==
  /\ lastEvent.kind = "join"
  /\ lastEvent.wasIn # {}
  /\ \A r \in lastEvent.wasIn : r \notin DOMAIN activeRooms
  /\ RoomsOf(activeRooms, lastEvent.client) # {}

\* C5: a member of room A that handles a join whose code normalizes to
\* B # A is afterwards a member of B and of no other room, with roomId B.
C5_JoinMovesSession ==
  [][ (Handled({"join"}) /\ ValidJoin(lastEvent'.msg)) =>
        LET c == lastEvent'.client
            B == normalizeRoomId(lastEvent'.msg.roomId)
        IN \A A \in RoomsOf(activeRooms, c) :
             A # B => /\ RoomsOf(activeRooms', c) = {B}
                      /\ clientSession'[c].roomId = B ]_vars

IsUserLeft(rec, who) ==
  rec.msg.type = "user-left" /\ rec.msg.clientId = who

UserLeftCount(s, to, who) ==
  Cardinality({ i \in 1..Len(s) : s[i].to = to /\ IsUserLeft(s[i], who) })

\* the step detaches the session of its event from the rooms it is in
DetachStep ==
  \/ Handled({"close", "error"})
  \/ Handled({"join"}) /\ ValidJoin(lastEvent'.msg)

\* C6: every detach of a room member (join while in a room, close, error)
\* sends exactly one user-left with its id to each member remaining in that
\* room and none to itself; no other step sends a user-left for a session.
C6_UserLeftOncePerDetach ==
  [][ /\ DetachStep =>
           LET c == lastEvent'.client
           IN \A R \in RoomsOf(activeRooms, c) :
                /\ \A m \in activeRooms[R] \ {c} :
                     UserLeftCount(sent', m, c) = 1
                /\ UserLeftCount(sent', c, c) = 0
      /\ \A i \in 1..Len(sent') :
           sent'[i].msg.type = "user-left" =>
             /\ DetachStep
             /\ sent'[i].msg.clientId = lastEvent'.client
             /\ RoomsOf(activeRooms, lastEvent'.client) # {} ]_vars

\* the target of a signal is a member of the room the sender's roomId names
TargetInSendersRoom(c, t) ==
  /\ c \in sessions
  /\ clientSession[c].roomId \in DOMAIN activeRooms
  /\ t \in activeRooms[clientSession[c].roomId]

\* C7: a signal whose target is not a member of the sender's current room
\* (the sender having no room included) sends nothing and changes no state.
C7_SignalOutsideRoomIsDropped ==
  [][ (lastEvent'.kind = "signal"
       /\ ~TargetInSendersRoom(lastEvent'.client,
                               lastEvent'.msg.targetClientId))
        => (sent' = <<>> /\ UNCHANGED realtime) ]_vars

\* the case of C7: the sender shares its room with another member, the
\* target is live in a different room, and the signal sent nothing
C7_Witness ==
  /\ lastEvent.kind = "signal"
  /\ lastEvent.client \in sessions
  /\ LET c == lastEvent.client
         t == lastEvent.msg.targetClientId
     IN /\ Truthy(clientSession[c].roomId)
        /\ Cardinality(activeRooms[clientSession[c].roomId]) >= 2
        /\ t \in sessions
        /\ Truthy(clientSession[t].roomId)
        /\ clientSession[t].roomId # clientSession[c].roomId
  /\ sent = <<>>

IsChatFrom(rec, c, text) ==
  /\ rec.msg.type = "chat"
  /\ rec.msg.clientId = c
  /\ rec.msg.text = text

\* C8: a chat with textual text from a session in a room gives every member
\* of that room whose channel is open, the sender included, exactly one chat
\* event with the sender's id, the text and one messageId common to all; a
\* non-empty textual messageId of the client is used verbatim.
C8_ChatReachesRoom ==
  [][ (Handled({"chat"}) /\ IsString(lastEvent'.msg.text)) =>
        LET c == lastEvent'.client
            m == lastEvent'.msg
        IN \A R \in RoomsOf(activeRooms, c) :
             /\ \A x \in activeRooms[R] :
                  sockOpen[x] =>
                    Cardinality({ i \in 1..Len(sent') :
                                    /\ sent'[i].to = x
                                    /\ sent'[i].delivered
                                    /\ IsChatFrom(sent'[i], c, m.text) }) = 1
             /\ \A i, j \in 1..Len(sent') :
                  sent'[i].msg.messageId = sent'[j].msg.messageId
             /\ (Truthy(m.messageId) /\ IsString(m.messageId)) =>
                  \A i \in 1..Len(sent') :
                    sent'[i].msg.messageId = m.messageId ]_vars

\* C9: a chat from a session that is in no Directory room sends nothing, and
\* a chat event goes only to members of the sender's room.
C9_ChatStaysInRoom ==
  lastEvent.kind = "chat" =>
    /\ lastEvent.wasIn = {} => sent = <<>>
    /\ \A i \in 1..Len(sent) :
         sent[i].msg.type = "chat" =>
           \E r \in lastEvent.wasIn : sent[i].to \in activeRooms[r]

\* C10: joinRoom on a room of the Ledger with role host succeeds exactly when
\* hostToken equals the room's hostToken and otherwise throws
\* InvalidHostToken and adds no participant; with any other role it succeeds
\* whatever the hostToken.
C10_HostTokenGate ==
  [][ (/\ lastEvent'.kind = "joinRoom"
       /\ IsString(lastEvent'.msg.roomId)
       /\ normalizeRoomId(lastEvent'.msg.roomId) \in DOMAIN rooms) =>
        LET room == rooms[normalizeRoomId(lastEvent'.msg.roomId)]
            options == lastEvent'.msg.options
        IN IF options.role = <<"host">>
           THEN /\ result'.ok <=> options.hostToken = room.hostToken
                /\ ~result'.ok =>
                     /\ result'.error = "InvalidHostToken"
                     /\ rooms' = rooms
           ELSE result'.ok ]_vars

\* the case of C10: a host join with the token of another room is refused
C10_Witness ==
  /\ lastEvent.kind = "joinRoom"
  /\ lastEvent.msg.options.role = <<"host">>
  /\ normalizeRoomId(lastEvent.msg.roomId) \in DOMAIN rooms
  /\ \E r \in DOMAIN rooms :
       /\ r # normalizeRoomId(lastEvent.msg.roomId)
       /\ rooms[r].hostToken = lastEvent.msg.options.hostToken
  /\ ~result.ok
  /\ result.error = "InvalidHostToken"

\* C11: joinRoom with a code that, trimmed and upper-cased, is not the code
\* of a room of the Ledger (the empty and the blank code included) throws
\* RoomNotFound and leaves the Ledger as it was.
C11_JoinUnknownRoomFails ==
  [][ (/\ lastEvent'.kind = "joinRoom"
       /\ IsString(lastEvent'.msg.roomId)
       /\ normalizeRoomId(lastEvent'.msg.roomId) \notin DOMAIN rooms) =>
        /\ ~result'.ok
        /\ result'.error = "RoomNotFound"
        /\ rooms' = rooms ]_vars

\* the case of C11: with a room in the Ledger, a join spelled in lower case
\* for a code the Ledger does not hold was refused
C11_Witness ==
  /\ lastEvent.kind = "joinRoom"
  /\ DOMAIN rooms # {}
  /\ lastEvent.msg.roomId \in { toLowerCase(k) : k \in GeneratedCodes }
  /\ normalizeRoomId(lastEvent.msg.roomId) \notin DOMAIN rooms
  /\ ~result.ok
  /\ result.error = "RoomNotFound"

AlphabetChars == { ROOM_ID_ALPHABET[k] : k \in 1..Len(ROOM_ID_ALPHABET) }

\* the codes the attempts of a createRoom call have drawn
Candidates(draws) == { codeOf(draws[attempt]) : attempt \in 1..Attempts }

\* C12: a successful createRoom returns a roomId of 6 characters of the
\* alphabet that no room of the Ledger had before the call and adds that
\* room; no step removes a room, so the returned roomIds are pairwise
\* distinct; a createRoom whose 20 candidates are all in use throws and adds
\* no room.
C12_CreatedIdsDistinct ==
  [][ /\ DOMAIN rooms \subseteq DOMAIN rooms'
      /\ lastEvent'.kind = "createRoom" =>
           /\ result'.ok =>
                LET roomId == result'.value.roomId
                IN /\ roomId \notin DOMAIN rooms
                   /\ DOMAIN rooms' = DOMAIN rooms \cup {roomId}
                   /\ Len(roomId) = ROOM_ID_LENGTH
                   /\ \A index \in 1..Len(roomId) :
                        roomId[index] \in AlphabetChars
           /\ ~result'.ok => rooms' = rooms
           /\ Candidates(lastEvent'.msg.draws) \subseteq DOMAIN rooms =>
                ~result'.ok ]_vars

\* the case of C12: a second room was created by a call whose first
\* candidate was the code of the first room
C12_Witness ==
  /\ lastEvent.kind = "createRoom"
  /\ result.ok
  /\ Cardinality(DOMAIN rooms) = 2
  /\ codeOf(lastEvent.msg.draws[1]) \in DOMAIN rooms
  /\ codeOf(lastEvent.msg.draws[1]) # result.value.roomId

\* every room and every participant record of the store before the step is
\* in the store after it, unchanged and at its place
LedgerKept ==
  \A r \in DOMAIN rooms :
    /\ r \in DOMAIN rooms'
    /\ rooms'[r].hostToken = rooms[r].hostToken
    /\ rooms'[r].createdAt = rooms[r].createdAt
    /\ Len(rooms'[r].participants) >= Len(rooms[r].participants)
    /\ \A i \in 1..Len(rooms[r].participants) :
         rooms'[r].participants[i] = rooms[r].participants[i]

\* C13: the Ledger is append-only: whatever call is made and whether it
\* succeeds or throws, every room stays with its hostToken and createdAt and
\* every participant record stays in its room with its participantId,
\* displayName, role and joinedAt; getRoomSummary and hasRoom change nothing.
C13_LedgerAppendOnly ==
  [][ /\ LedgerKept
      /\ lastEvent'.kind \in {"getRoomSummary", "hasRoom"} =>
           rooms' = rooms ]_vars

\* the case of C13: a join has added a second participant, with the name
\* and role of the first, to a room
C13_Witness ==
  /\ lastEvent.kind = "joinRoom"
  /\ result.ok
  /\ \E r \in DOMAIN rooms :
       /\ Len(rooms[r].participants) = 2
       /\ rooms[r].participants[1].displayName
            = rooms[r].participants[2].displayName
       /\ rooms[r].participants[1].role = rooms[r].participants[2].role

\* the participant a successful joinRoom has returned
JoinedParticipant(res) ==
  [participantId |-> res.value.participantId,
   displayName |-> res.value.displayName,
   role |-> res.value.role,
   joinedAt |-> res.value.joinedAt]

SuccessfulJoin == lastEvent'.kind = "joinRoom" /\ result'.ok

\* C14: a room starts without participants; a successful joinRoom puts the
\* participant it returns, under an id no participant of the room has, at
\* the end of that room's list and touches no other list; no other call
\* (a failed join included) changes a list; and getRoomSummary returns the
\* list of its room as it stands: one participant per successful join, in
\* join order, with the role and displayName the join returned.
C14_SummaryListsJoinsInOrder ==
  [][ /\ \A r \in (DOMAIN rooms') \ (DOMAIN rooms) :
           rooms'[r].participants = <<>>
      /\ SuccessfulJoin =>
           LET r == result'.value.roomId
           IN /\ r \in DOMAIN rooms
              /\ r = normalizeRoomId(lastEvent'.msg.roomId)
              /\ rooms'[r].participants =
                   Append(rooms[r].participants, JoinedParticipant(result'))
              /\ \A i \in 1..Len(rooms[r].participants) :
                   rooms[r].participants[i].participantId
                     # result'.value.participantId
              /\ \A q \in (DOMAIN rooms) \ {r} :
                   rooms'[q].participants = rooms[q].participants
      /\ ~SuccessfulJoin =>
           \A r \in DOMAIN rooms :
             rooms'[r].participants = rooms[r].participants
      /\ (/\ lastEvent'.kind = "getRoomSummary"
          /\ normalizeRoomId(lastEvent'.msg.roomId) \in DOMAIN rooms) =>
           /\ result'.ok
           /\ result'.value.participants =
                rooms[normalizeRoomId(lastEvent'.msg.roomId)].participants
     ]_vars

\* the case of C14: a summary lists two participants that joined with the
\* same name and role
C14_Witness ==
  /\ lastEvent.kind = "getRoomSummary"
  /\ result.ok
  /\ Len(result.value.participants) = 2
  /\ result.value.participants[1].displayName
       = result.value.participants[2].displayName
  /\ result.value.participants[1].role = result.value.participants[2].role
  /\ result.value.participants[1].participantId
       # result.value.participants[2].participantId

\* what a join message asks for: the name trimmed, or none when it is not
\* textual or blank; role host only when the role is exactly "host"
NameOf(m) ==
  IF IsString(m.displayName) /\ trim(m.displayName) # <<>>
  THEN trim(m.displayName) ELSE Null

RoleOf(m) == IF m.role = <<"host">> THEN <<"host">> ELSE <<"guest">>

\* the step handled a valid join of a registered session
ValidJoinStep == Handled({"join"}) /\ ValidJoin(lastEvent'.msg)

\* the members of the room the join of the step names, the joiner left out
OtherMembers ==
  LET B == normalizeRoomId(lastEvent'.msg.roomId)
  IN IF B \in DOMAIN activeRooms'
     THEN activeRooms'[B] \ {lastEvent'.client} ELSE {}

SentOfType(s, type) == { i \in 1..Len(s) : s[i].msg.type = type }

\* a session's name and role are those of its latest valid join: a valid
\* join sets them from its message, and no other step changes those of a
\* session object, registered or not
ProfileIsOfLatestJoin ==
  \A x \in opened :
    IF ValidJoinStep /\ lastEvent'.client = x
    THEN /\ clientSession'[x].displayName = NameOf(lastEvent'.msg)
         /\ clientSession'[x].role = RoleOf(lastEvent'.msg)
    ELSE /\ clientSession'[x].displayName = clientSession[x].displayName
         /\ clientSession'[x].role = clientSession[x].role

\* C15: a valid join sends exactly one room-state, to the joiner (delivered
\* when its channel is open); its participants are, once each, the members
\* of the target room other than the joiner, each with the displayName and
\* role of its own latest join; the joiner is never listed.
C15_RoomStateListsOthers ==
  [][ /\ ProfileIsOfLatestJoin
      /\ ValidJoinStep =>
           LET c == lastEvent'.client
               states == SentOfType(sent', "room-state")
           IN /\ Cardinality(states) = 1
              /\ \A i \in states :
                   LET roster == sent'[i].msg.participants
                   IN /\ sent'[i].to = c
                      /\ sent'[i].delivered = sockOpen[c]
                      /\ { roster[k].clientId : k \in 1..Len(roster) }
                           = OtherMembers
                      /\ Len(roster) = Cardinality(OtherMembers)
                      /\ \A k \in 1..Len(roster) :
                           /\ roster[k].clientId # c
                           /\ roster[k].displayName =
                                clientSession'[roster[k].clientId].displayName
                           /\ roster[k].role =
                                clientSession'[roster[k].clientId].role
     ]_vars

\* the case of C15: a session has joined again the room it was in, under a
\* new role, and its room-state lists another member whose role differs
C15_Witness ==
  /\ lastEvent.kind = "join"
  /\ lastEvent.client \in sessions
  /\ lastEvent.wasIn = {clientSession[lastEvent.client].roomId}
  /\ \E i \in SentOfType(sent, "room-state") :
       /\ sent[i].to = lastEvent.client
       /\ Len(sent[i].msg.participants) >= 1
       /\ sent[i].msg.participants[1].role
            # clientSession[lastEvent.client].role

\* C16: a valid join sends exactly one user-joined, with the joiner's id and
\* the name and role of this join, to every other member of the target room,
\* and a user-joined to nobody else.
C16_UserJoinedToOthersOnly ==
  [][ ValidJoinStep =>
        LET c == lastEvent'.client
            joined == [clientId |-> c,
                       displayName |-> NameOf(lastEvent'.msg),
                       role |-> RoleOf(lastEvent'.msg)]
        IN /\ \A m \in OtherMembers :
                Cardinality({ i \in SentOfType(sent', "user-joined") :
                                sent'[i].to = m }) = 1
           /\ \A i \in SentOfType(sent', "user-joined") :
                /\ sent'[i].to \in OtherMembers
                /\ sent'[i].to # c
                /\ sent'[i].msg.participant = joined ]_vars

\* the case of C16: a join with a role that is not exactly "host" into a
\* room with another member, while a third session is live in another room
C16_Witness ==
  /\ lastEvent.kind = "join"
  /\ lastEvent.client \in sessions
  /\ lastEvent.msg.role = <<"Host">>
  /\ \E i \in SentOfType(sent, "user-joined") :
       sent[i].msg.participant.role = <<"guest">>
  /\ \E x \in sessions :
       /\ Truthy(clientSession[x].roomId)
       /\ Truthy(clientSession[lastEvent.client].roomId)
       /\ clientSession[x].roomId # clientSession[lastEvent.client].roomId

\* C17: a signal from a member of a room to a member of that same room
\* sends exactly one event, a signal to the target with the sender's id and
\* the payload of the message (null when it has none), and changes no
\* Session and no Directory state.
C17_SignalReachesTarget ==
  [][ (/\ Handled({"signal"})
       /\ \E R \in RoomsOf(activeRooms, lastEvent'.client) :
            lastEvent'.msg.targetClientId \in activeRooms[R]) =>
        /\ Len(sent') = 1
        /\ sent'[1].to = lastEvent'.msg.targetClientId
        /\ sent'[1].msg = [type |-> "signal",
                           from |-> lastEvent'.client,
                           payload |-> lastEvent'.msg.payload]
        /\ UNCHANGED realtime ]_vars

\* the message of an event is one the router drops: unparseable, not an
\* object, of an unrecognized type, a join without a textual non-empty
\* roomId, or a chat whose text is not textual
Malformed(e) ==
  \/ e.kind \in {"invalid-json", "not-an-object", "ping"}
  \/ e.kind = "join" /\ ~ValidJoin(e.msg)
  \/ e.kind = "chat" /\ ~IsString(e.msg.text)

\* C18: a malformed message is dropped silently: nothing is sent, and the
\* Session Registry, the fields of every session and the Directory are as
\* before; a join without roomId does not detach its sender.
C18_MalformedIsDropped ==
  [][ Malformed(lastEvent') =>
        /\ sent' = <<>>
        /\ UNCHANGED << sessions, clientSession, activeRooms >> ]_vars

\* the case of C18: a join without a usable roomId came from a session that
\* shares its room with another member, and nothing was sent
C18_Witness ==
  /\ lastEvent.kind = "join"
  /\ ~ValidJoin(lastEvent.msg)
  /\ lastEvent.client \in sessions
  /\ \E R \in RoomsOf(activeRooms, lastEvent.client) :
       /\ clientSession[lastEvent.client].roomId = R
       /\ Cardinality(activeRooms[R]) >= 2
  /\ sent = <<>>

\* the event of the step is for a connection whose close or error has been
\* handled before
LateEvent ==
  /\ lastEvent'.kind \in {"join", "signal", "chat", "invalid-json",
                          "not-an-object", "ping", "close", "error"}
  /\ lastEvent'.client \in ended

RealTimeKinds ==
  { "open", "transport", "join", "signal", "chat", "invalid-json",
    "not-an-object", "ping", "close", "error" }

LedgerKinds == { "createRoom", "joinRoom", "getRoomSummary", "hasRoom" }

\* C20: a real-time event leaves the Ledger as it is, a Ledger call leaves
\* the Session Registry, the sessions and the Directory as they are and
\* sends nothing, and a valid real-time join puts its session in the room
\* it names with the role it asks for whatever the Ledger holds: whether or
\* not the Ledger has a room of that code, and for role host whatever
\* hostToken, if any, the message carries.
C20_LedgerAndDirectoryApart ==
  [][ /\ lastEvent'.kind \in RealTimeKinds =>
           UNCHANGED << ledger, result >>
      /\ lastEvent'.kind \in LedgerKinds =>
           (UNCHANGED realtime /\ sent' = <<>>)
      /\ ValidJoinStep =>
           LET c == lastEvent'.client
               B == normalizeRoomId(lastEvent'.msg.roomId)
           IN /\ B \in DOMAIN activeRooms'
              /\ c \in activeRooms'[B]
              /\ clientSession'[c].roomId = B
              /\ clientSession'[c].role = RoleOf(lastEvent'.msg)
              /\ \E i \in SentOfType(sent', "room-state") : sent'[i].to = c
     ]_vars

\* the case of C20: a session has joined as host, with a token of no room,
\* a room whose code the Ledger holds with a participant in it, while the
\* Directory has a room whose code the Ledger does not hold
C20_Witness ==
  /\ lastEvent.kind = "join"
  /\ lastEvent.client \in sessions
  /\ lastEvent.msg.hostToken = makeId(0)
  /\ LET B == normalizeRoomId(lastEvent.msg.roomId)
     IN /\ B \in DOMAIN rooms
        /\ rooms[B].hostToken # lastEvent.msg.hostToken
        /\ Len(rooms[B].participants) >= 1
        /\ B \in DOMAIN activeRooms
        /\ lastEvent.client \in activeRooms[B]
  /\ clientSession[lastEvent.client].role = <<"host">>
  /\ \E R \in DOMAIN activeRooms : R \notin DOMAIN rooms

\* a string that is trimmed and upper-cased as it stands: blank neither at
\* its start nor at its end, and no lower-case letter in it
IsNormalized(str) ==
  /\ Len(str) > 0 => (str[1] # " " /\ str[Len(str)] # " ")
  /\ \A i \in 1..Len(str) :
       \A k \in 1..Len(LowerCase) : str[i] # LowerCase[k]

\* the key every spelling of a code stands for; codes made of blanks stand
\* for the empty string
KeysAndSpellings ==
  { <<k, Spellings(k)>> : k \in GeneratedCodes } \cup { << <<>>, BlankCodes >> }

StoredNormalized ==
  /\ \A key \in DOMAIN activeRooms : IsNormalized(key)
  /\ \A c \in opened :
       clientSession[c].roomId # Null => IsNormalized(clientSession[c].roomId)

\* a real-time join under any spelling of a code puts the session in the
\* room keyed by the code, next to the members that joined it before; the
\* joiner's room-state lists each of them, and each gets the user-joined
SpellingsShareRoom ==
  \A ks \in KeysAndSpellings :
    (ValidJoinStep /\ lastEvent'.msg.roomId \in ks[2]) =>
      LET c == lastEvent'.client
          before == IF ks[1] \in DOMAIN activeRooms
                    THEN activeRooms[ks[1]] \ {c} ELSE {}
      IN /\ ks[1] \in DOMAIN activeRooms'
         /\ activeRooms'[ks[1]] = before \cup {c}
         /\ \A x \in before :
              /\ \E i \in SentOfType(sent', "room-state") :
                   /\ sent'[i].to = c
                   /\ \E n \in 1..Len(sent'[i].msg.participants) :
                        sent'[i].msg.participants[n].clientId = x
              /\ \E i \in SentOfType(sent', "user-joined") :
                   /\ sent'[i].to = x
                   /\ sent'[i].msg.participant.clientId = c

\* what a Ledger call gives depends on the code its argument spells, not on
\* the spelling
LedgerIgnoresSpelling ==
  \A k \in GeneratedCodes :
    (lastEvent'.kind \in LedgerKinds \ {"createRoom"}
     /\ lastEvent'.msg.roomId \in Spellings(k)) =>
      CASE lastEvent'.kind = "hasRoom" ->
             result'.value = (k \in DOMAIN rooms)
        [] lastEvent'.kind = "getRoomSummary" ->
             IF k \in DOMAIN rooms
             THEN /\ result'.ok
                  /\ result'.value.roomId = k
                  /\ result'.value.createdAt = rooms[k].createdAt
                  /\ result'.value.participants = rooms[k].participants
             ELSE ~result'.ok /\ result'.error = "RoomNotFound"
        [] lastEvent'.kind = "joinRoom" ->
             LET options == lastEvent'.msg.options IN
             IF k \notin DOMAIN rooms
             THEN ~result'.ok /\ result'.error = "RoomNotFound"
             ELSE IF options.role = <<"host">>
                     /\ options.hostToken # rooms[k].hostToken
             THEN ~result'.ok /\ result'.error = "InvalidHostToken"
             ELSE /\ result'.ok
                  /\ result'.value.roomId = k
                  /\ Len(rooms'[k].participants)
                       = Len(rooms[k].participants) + 1

\* C21: room codes are compared trimmed and upper-cased on both paths:
\* every key of the Directory and every non-null roomId is trimmed and
\* upper-cased; real-time joins whose codes are equal once trimmed and
\* upper-cased put their sessions in the same room, where each sees the
\* other; and Ledger joinRoom, getRoomSummary and hasRoom give the same
\* result for every case and padding of a code.
C21_CodesComparedNormalized ==
  []StoredNormalized /\ [][SpellingsShareRoom /\ LedgerIgnoresSpelling]_vars

\* the case of C21: the Ledger has found a room with a participant under a
\* padded lower-case spelling of its code while two sessions share the
\* Directory room of that code
C21_Witness ==
  /\ lastEvent.kind = "hasRoom"
  /\ lastEvent.msg.roomId \in
       { <<" ">> \o toLowerCase(k) : k \in DOMAIN rooms }
  /\ result.value = TRUE
  /\ \E k \in DOMAIN rooms :
       /\ Len(rooms[k].participants) >= 1
       /\ k \in DOMAIN activeRooms
       /\ Cardinality(activeRooms[k]) >= 2

====
